---- MODULE Spec2Model ----
(***************************************************************************)
(* slog-dtrace: a slog Drain that forwards log records to six DTrace USDT  *)
(* probes, one per level.  The model covers sink construction             *)
(* (Dtrace::new, with_drain), the per-level dispatch in Dtrace::log, the   *)
(* message builder create_dtrace_message with its key-value Serializer,    *)
(* the external tracer that enables and disables probes, the round trip   *)
(* of attribute values through the JSON payload, and log calls made        *)
(* concurrently by several threads.                                        *)
(*                                                                         *)
(* The sink itself holds no mutable state (Dtrace is a PhantomData).  The  *)
(* variables below are the state of the probing facility plus observation  *)
(* logs of what each log call did, and the locals of the calls in          *)
(* progress on each thread.                                                *)
(***************************************************************************)
EXTENDS Integers, Sequences, FiniteSets, TLC

\* ------------------------------------------------------------------ bounds
MaxEventKV == 2     \* longest event-local attribute list of a record
MaxCtxKV == 2       \* longest logger-context attribute list
MaxCalls == 2       \* log calls observed in a row by the history specification
MaxClock == 1       \* Utc::now() yields a value in 0..MaxClock
MaxThreads == 2     \* threads that call the sink's log concurrently

\* ------------------------------------------------------------- vocabulary
\* slog::Level variants matched in Dtrace::log.
Levels == {"Trace", "Debug", "Info", "Warning", "Error", "Critical"}

\* The probes of the `slog` provider.
Probes == {"trace", "debug", "info", "warn", "error", "critical"}

\* The provider's probe for each level: fn trace, debug, info, warn, error,
\* critical of mod probes.
LevelProbe ==
    [Trace |-> "trace", Debug |-> "debug", Info |-> "info", Warning |-> "warn",
     Error |-> "error", Critical |-> "critical"]

\* record.level().as_str(): the level tag stored in Message.level.
LevelStr(level) ==
    CASE level = "Trace" -> "TRACE"
      [] level = "Debug" -> "DEBUG"
      [] level = "Info" -> "INFO"
      [] level = "Warning" -> "WARN"
      [] level = "Error" -> "ERROR"
      [] level = "Critical" -> "CRITICAL"

\* A mis-dispatching match: every level is sent to the trace probe.
ProbeOfAllTrace(level) == "trace"

\* The match of Dtrace::log: the probe macro chosen for each level.
ProbeOf(level) ==
    CASE level = "Trace" -> "trace"
      [] level = "Debug" -> "debug"
      [] level = "Info" -> "info"
      [] level = "Warning" -> "warn"
      [] level = "Error" -> "error"
      [] level = "Critical" -> "critical"

\* slog::Level::as_usize: Critical is the most severe.
LevelNum(level) ==
    CASE level = "Critical" -> 1
      [] level = "Error" -> 2
      [] level = "Warning" -> 3
      [] level = "Info" -> 4
      [] level = "Debug" -> 5
      [] level = "Trace" -> 6

\* ------------------------------------------------------- wide integers
\* Rust's integer types reach 2^64 - 1, beyond the integers of the checker, so
\* an integer is held as a sign and a magnitude of three digits in base 2^30
\* (most significant first): value = +/- (a * 2^60 + b * 2^30 + c).
Limb == 2^30

Wide(neg, a, b, c) == [neg |-> neg, mag |-> <<a, b, c>>]

\* A small integer (|n| < 2^30) as a wide integer.
WideOf(n) == Wide(n < 0, 0, 0, IF n < 0 THEN 0 - n ELSE n)

\* The magnitude 2^e, for e in 0..64.
Pow2Mag(e) ==
    IF e < 30 THEN <<0, 0, 2^e>>
    ELSE IF e < 60 THEN <<0, 2^(e - 30), 0>>
    ELSE <<2^(e - 60), 0, 0>>

\* m - 1, for a magnitude m > 0.
MagPred(m) ==
    IF m[3] > 0 THEN <<m[1], m[2], m[3] - 1>>
    ELSE IF m[2] > 0 THEN <<m[1], m[2] - 1, Limb - 1>>
    ELSE <<m[1] - 1, Limb - 1, Limb - 1>>

MagLess(x, y) ==
    \/ x[1] < y[1]
    \/ x[1] = y[1] /\ x[2] < y[2]
    \/ x[1] = y[1] /\ x[2] = y[2] /\ x[3] < y[3]

\* The integer types of the emit_* methods: width in bits and signedness.
\* usize and isize are 64 bits wide on the targets DTrace runs on.
IntKinds == {"u8", "u16", "u32", "u64", "usize", "i8", "i16", "i32", "i64", "isize"}

Bits(kind) ==
    CASE kind \in {"u8", "i8"} -> 8
      [] kind \in {"u16", "i16"} -> 16
      [] kind \in {"u32", "i32"} -> 32
      [] kind \in {"u64", "i64", "usize", "isize"} -> 64

Signed(kind) == kind \in {"i8", "i16", "i32", "i64", "isize"}

\* T::MIN and T::MAX
MinOf(kind) ==
    IF Signed(kind) THEN [neg |-> TRUE, mag |-> Pow2Mag(Bits(kind) - 1)] ELSE WideOf(0)

MaxOf(kind) ==
    [neg |-> FALSE,
     mag |-> MagPred(Pow2Mag(IF Signed(kind) THEN Bits(kind) - 1 ELSE Bits(kind)))]

\* v is a value of the integer type
InRange(v, kind) ==
    IF v.neg THEN Signed(kind) /\ ~MagLess(MinOf(kind).mag, v.mag)
    ELSE ~MagLess(MaxOf(kind).mag, v.mag)

\* ---------------------------------------------------------- JSON values
\* serde_json::Value, restricted to the variants the Serializer produces.
\* Every value carries all three fields so that values stay comparable; n is
\* a wide integer.  An integer Number is serde_json's PosInt/NegInt, JFloat is
\* a Number holding a finite f64, named by its decimal text.
JNumber(n) == [j |-> "Number", n |-> n, s |-> ""]
JFloat(s) == [j |-> "Float", n |-> WideOf(0), s |-> s]
JString(s) == [j |-> "String", n |-> WideOf(0), s |-> s]
JBool(b) == [j |-> "Bool", n |-> IF b THEN WideOf(1) ELSE WideOf(0), s |-> ""]
JNull == [j |-> "Null", n |-> WideOf(0), s |-> ""]

\* An attribute as slog hands it to the Serializer: a key and a typed value.
\* n is the value of an integer or bool attribute (a wide integer), s the text
\* of a string or formatted attribute or the decimal text of a float ("NaN",
\* "inf" and "-inf" are the floats that are not finite).  kind "fail" is a
\* slog::Value whose serialize() returns Err; s is then the Display text of
\* the error.
Attr(key, kind, n, s) == [key |-> key, kind |-> kind, n |-> n, s |-> s]

NonFinite == {"NaN", "inf", "-inf"}

\* An emit_* method that was left to slog's default, which formats the value
\* and hands it to emit_arguments.
IntoValueU64Default(a) ==
    CASE a.kind \in {"u64", "usize"} ->
             [j |-> "String", n |-> WideOf(0), s |-> "formatted"]
      [] a.kind \in IntKinds \ {"u64", "usize"} -> JNumber(a.n)
      [] a.kind \in {"f32", "f64"} ->
             IF a.s \in NonFinite THEN JNull ELSE JFloat(a.s)
      [] a.kind = "bool" -> JBool(a.n = WideOf(1))
      [] a.kind \in {"str", "arguments"} -> JString(a.s)
      [] a.kind \in {"unit", "none"} -> JNull

\* value.into(): the conversion of a typed value to serde_json::Value.  An
\* integer becomes a Number of the same value (PosInt or NegInt by its sign),
\* a finite float a Number, a float that is not finite Null.
IntoValue(a) ==
    CASE a.kind \in IntKinds -> JNumber(a.n)
      [] a.kind \in {"f32", "f64"} ->
             IF a.s \in NonFinite THEN JNull ELSE JFloat(a.s)
      [] a.kind = "bool" -> JBool(a.n = WideOf(1))
      [] a.kind = "str" -> JString(a.s)
      [] a.kind = "arguments" -> JString(a.s)
      [] a.kind = "unit" -> JNull
      [] a.kind = "none" -> JNull

\* ------------------------------------------------------------ JsonMap
\* serde_json::Map<String, Value> as a set of entries.
EmptyMap == {}

MapKeys(map) == {e.key : e \in map}

\* Map::insert: the value stored under the key is replaced.
MapInsert(map, key, value) ==
    {e \in map : e.key # key} \cup {[key |-> key, value |-> value]}

\* Serializer::emit and the emit_* methods: insert key -> value.into(), Ok(()).
emit(map, a) == MapInsert(map, a.key, IntoValue(a))

\* KV::serialize over a list of attributes, into the serializer state
\* st = [map, ok, err]: attributes are emitted in order; the first attribute
\* whose serialize() fails ends the walk with its error (the `?` of slog's KV
\* impls), and a walk that starts from a failed state emits nothing (and_then).
RECURSIVE SerializeKV(_, _)
SerializeKV(st, kvs) ==
    IF ~st.ok \/ kvs = <<>> THEN st
    ELSE LET a == Head(kvs)
         IN IF a.kind = "fail"
            THEN [map |-> st.map, ok |-> FALSE, err |-> a.s]
            ELSE SerializeKV([map |-> emit(st.map, a), ok |-> TRUE, err |-> ""],
                             Tail(kvs))

\* Serializer::default()
NewSerializer == [map |-> EmptyMap, ok |-> TRUE, err |-> ""]

\* ------------------------------------------------------- message builder
\* A builder that keeps what was emitted before a failure next to "err".
create_dtrace_message_keep_partial(record, values, now) ==
    LET s1 == SerializeKV(NewSerializer, record.kv)
        s2 == SerializeKV(s1, values)
    IN [location |-> [module |-> record.module, file |-> record.file,
                      line |-> record.line],
        timestamp |-> now,
        level |-> LevelStr(record.level),
        message |-> record.msg,
        kv |-> IF s2.ok THEN s2.map
               ELSE MapInsert(s2.map, "err", JString(s2.err))]

\* A builder that tags every message with the INFO level.
create_dtrace_message_info_tag(record, values, now) ==
    LET s1 == SerializeKV(NewSerializer, record.kv)
        s2 == SerializeKV(s1, values)
    IN [location |-> [module |-> record.module, file |-> record.file,
                      line |-> record.line],
        timestamp |-> now,
        level |-> "INFO",
        message |-> record.msg,
        kv |-> IF s2.ok THEN s2.map
               ELSE MapInsert(EmptyMap, "err", JString(s2.err))]

\* create_dtrace_message: the record's own attributes are serialized first,
\* then the logger's values, into one Serializer; on Err the map is replaced
\* by {"err": format!("{}", e)}.  now is the value of Utc::now().
create_dtrace_message(record, values, now) ==
    LET s1 == SerializeKV(NewSerializer, record.kv)
        s2 == SerializeKV(s1, values)
    IN [location |-> [module |-> record.module, file |-> record.file,
                      line |-> record.line],
        timestamp |-> now,
        level |-> LevelStr(record.level),
        message |-> record.msg,
        kv |-> IF s2.ok THEN s2.map
               ELSE MapInsert(EmptyMap, "err", JString(s2.err))]

\* ------------------------------------------------------------ probe macro
\* A probe macro that evaluates its argument closure before the enabled check.
probe_eager(probe, en, record, values, now) ==
    LET msg == create_dtrace_message(record, values, now)
    IN [built |-> <<msg>>,
        fired |-> IF probe \in en
                  THEN <<[probe |-> probe, payload |-> [ok |-> msg]]>>
                  ELSE <<>>]

\* probes::<probe>_!(|| create_dtrace_message(record, values)): the closure is
\* called only when the probe is enabled, and its Message is then fired on
\* that probe as the JSON text {"ok": <Message>}.
probe_(probe, en, record, values, now) ==
    IF probe \in en
    THEN LET msg == create_dtrace_message(record, values, now)
         IN [built |-> <<msg>>,
             fired |-> <<[probe |-> probe, payload |-> [ok |-> msg]]>>]
    ELSE [built |-> <<>>, fired |-> <<>>]

\* ----------------------------------------------------------------- drains
\* Results of Drain::log.  first and second are the halves of a Duplicate's
\* result; a plain Dtrace drain has none.
OkUnit == [tag |-> "Ok", first |-> "-", second |-> "-"]

\* A log that hands a serialization failure back to its caller.
DtraceLogPropagatesErr(record, values, en, now) ==
    LET f == probe_(ProbeOf(record.level), en, record, values, now)
        failed == \E i \in DOMAIN f.built : "err" \in MapKeys(f.built[i].kv)
    IN [gateSeen |-> <<record>>, built |-> f.built, fired |-> f.fired,
        result |-> IF failed THEN [tag |-> "Err", first |-> "-", second |-> "-"]
                   ELSE OkUnit]

\* <Dtrace as Drain>::log: dispatch on the level, then Ok(()).
DtraceLog(record, values, en, now) ==
    LET f == probe_(ProbeOf(record.level), en, record, values, now)
    IN [gateSeen |-> <<record>>, built |-> f.built, fired |-> f.fired,
        result |-> OkUnit]

\* The level filter of the wrapped drain in the tests.
FilterLevel == "Warning"

\* Level::is_at_least
IsAtLeast(level, filter) == LevelNum(level) <= LevelNum(filter)

\* The wrapped drain D of with_drain, as the tests build it: a formatter behind
\* filter_level(Warning).  A record below the filter is dropped with Ok; one
\* that passes is written, and the write returns io ("ok" or "err"), which is
\* the drain's result: D is any Drain, and fails by returning Err.
WrappedLog(record, io) ==
    IF IsAtLeast(record.level, FilterLevel)
    THEN [seen |-> <<record>>,
          out |-> IF io = "ok"
                  THEN <<[level |-> LevelStr(record.level), msg |-> record.msg]>>
                  ELSE <<>>,
          result |-> IF io = "ok" THEN "Ok" ELSE "Err"]
    ELSE [seen |-> <<record>>, out |-> <<>>, result |-> "Ok"]

\* A Duplicate that returns as soon as its first drain fails.
DuplicateLogShortCircuit(record, values, en, io, now) ==
    LET w == WrappedLog(record, io)
        d == DtraceLog(record, values, en, now)
    IN IF w.result = "Err"
       THEN [wrappedSeen |-> w.seen, wrappedOut |-> w.out, gateSeen |-> <<>>,
             built |-> <<>>, fired |-> <<>>,
             result |-> [tag |-> "Err", first |-> "Err", second |-> "-"]]
       ELSE [wrappedSeen |-> w.seen, wrappedOut |-> w.out, gateSeen |-> d.gateSeen,
             built |-> d.built, fired |-> d.fired,
             result |-> [tag |-> "Ok", first |-> "Ok", second |-> "Ok"]]

\* A composition that puts the Dtrace drain behind the wrapped drain's filter.
DuplicateLogBehindFilter(record, values, en, io, now) ==
    LET w == WrappedLog(record, io)
        d == DtraceLog(record, values, en, now)
        pass == IsAtLeast(record.level, FilterLevel)
    IN [wrappedSeen |-> w.seen, wrappedOut |-> w.out,
        gateSeen |-> IF pass THEN d.gateSeen ELSE <<>>,
        built |-> IF pass THEN d.built ELSE <<>>,
        fired |-> IF pass THEN d.fired ELSE <<>>,
        result |-> [tag |-> IF w.result = "Ok" THEN "Ok" ELSE "Err",
                    first |-> w.result, second |-> "Ok"]]

\* slog::Duplicate(drain, d).log: both drains are called, the wrapped one
\* first; Ok((o1, o2)) when both succeed, Err((r1, r2)) otherwise.
DuplicateLog(record, values, en, io, now) ==
    LET w == WrappedLog(record, io)
        d == DtraceLog(record, values, en, now)
    IN [wrappedSeen |-> w.seen, wrappedOut |-> w.out, gateSeen |-> d.gateSeen,
        built |-> d.built, fired |-> d.fired,
        result |-> [tag |-> IF w.result = "Ok" /\ d.result.tag = "Ok"
                            THEN "Ok" ELSE "Err",
                    first |-> w.result, second |-> d.result.tag]]

\* The plain Dtrace sink seen through the same observation record.
PlainLog(record, values, en, io, now) ==
    LET d == DtraceLog(record, values, en, now)
    IN [wrappedSeen |-> <<>>, wrappedOut |-> <<>>, gateSeen |-> d.gateSeen,
        built |-> d.built, fired |-> d.fired, result |-> d.result]

\* ------------------------------------------------------------ construction
\* ProbeRegistration
Success == [tag |-> "Success", reason |-> ""]
Failed(reason) == [tag |-> "Failed", reason |-> reason]
NotConstructed == [tag |-> "None", reason |-> ""]

\* What usdt::register_probes() can return: "" is Ok(_), any other text is the
\* Display of the error.
RegisterResults == {"", "failed to register probes"}

\* A constructor that gives up the sink when registration fails.
DtraceNewNoSinkOnFailure(res) ==
    [sink |-> IF res = "" THEN "Dtrace" ELSE "none",
     registration |-> IF res = "" THEN Success ELSE Failed(res),
     regCalls |-> <<res>>]

\* Dtrace::new: one call of usdt::register_probes(), whose result res becomes
\* the ProbeRegistration; the drain is returned either way.
DtraceNew(res) ==
    [sink |-> "Dtrace",
     registration |-> IF res = "" THEN Success ELSE Failed(res),
     regCalls |-> <<res>>]

\* A with_drain that registers the probes itself before delegating.
with_drain_registers_twice(res) ==
    LET d == DtraceNew(res)
    IN [sink |-> "Duplicate", registration |-> d.registration,
        regCalls |-> <<res>> \o d.regCalls]

\* with_drain: Dtrace::new() once, wrapped in slog::Duplicate(drain, d).
with_drain(res) ==
    LET d == DtraceNew(res)
    IN [sink |-> "Duplicate", registration |-> d.registration,
        regCalls |-> d.regCalls]

\* ------------------------------------------------------------------ state
VARIABLES
    sink,           \* "none", "Dtrace" (Dtrace::new) or "Duplicate" (with_drain)
    registration,   \* the ProbeRegistration returned to the caller
    regCalls,       \* the results of the calls of usdt::register_probes so far
    enabled,        \* the probes the tracer has enabled
    logged,         \* observed log calls: their inputs
    wrappedSeen,    \* observed records handed to the wrapped drain's log
    wrappedOut,     \* observed lines the wrapped drain wrote
    gateSeen,       \* observed records handed to <Dtrace as Drain>::log
    built,          \* observed Messages built by create_dtrace_message
    fired,          \* observed payloads fired, with their probe
    returned,       \* observed results of the log calls
    calls           \* per thread: the locals of its log call in progress

vars == <<sink, registration, regCalls, enabled, logged, wrappedSeen,
          wrappedOut, gateSeen, built, fired, returned, calls>>

observed == <<logged, wrappedSeen, wrappedOut, gateSeen, built, fired, returned>>
program == <<sink, registration, regCalls>>

\* The probes are known to the tracer once a registration has succeeded.
Registered == \E i \in DOMAIN regCalls : regCalls[i] = ""

\* The threads, and the locals of a thread that is not inside log: pc is the
\* thread's position, call the number of its call in the observation, record
\* and values the arguments of log, ser the Serializer of
\* create_dtrace_message, pending the attributes not yet serialized, and msg
\* the Message once built.
Threads == 1..MaxThreads

NoRecord ==
    [level |-> "", module |-> "", file |-> "", line |-> 0, msg |-> "", kv |-> <<>>]

Idle ==
    [pc |-> "idle", call |-> 0, record |-> NoRecord, values |-> <<>>,
     pending |-> <<>>, ser |-> NewSerializer, msg |-> <<>>]

Init ==
    /\ sink = "none"
    /\ registration = NotConstructed
    /\ regCalls = <<>>
    /\ enabled = {}
    /\ logged = <<>>
    /\ wrappedSeen = <<>>
    /\ wrappedOut = <<>>
    /\ gateSeen = <<>>
    /\ built = <<>>
    /\ fired = <<>>
    /\ returned = <<>>
    /\ calls = [t \in Threads |-> Idle]

\* ----------------------------------------------------------------- inputs
\* Call sites of the log macros: module, file, line and message text.
Sites ==
    {[module |-> "tests", file |-> "tests/test-slog-dtrace.rs", line |-> 203,
      msg |-> "a message"],
     [module |-> "tests", file |-> "tests/test-slog-dtrace.rs", line |-> 204,
      msg |-> "just for dtrace"]}

Record(level, site, kv) ==
    [level |-> level, module |-> site.module, file |-> site.file,
     line |-> site.line, msg |-> site.msg, kv |-> kv]

\* Attributes: two keys, two values, and a value whose serialize() fails.
Attrs ==
    {Attr("key", "str", WideOf(0), "value"), Attr("key", "i32", WideOf(2), ""),
     Attr("some-key", "i32", WideOf(2), ""), Attr("some-key", "fail", WideOf(0), "serialize failed")}

KVLists(n) == UNION {[1..k -> Attrs] : k \in 0..n}

\* o!("key" => "value"): the logger context of the tests.
TestValues == <<Attr("key", "str", WideOf(0), "value")>>

\* The attribute lists of the tests' log statements, and a failing one.
TestKVs ==
    {<<>>, <<Attr("some-key", "i32", WideOf(2), "")>>, <<Attr("dtrace", "bool", WideOf(1), "")>>,
     <<Attr("some-key", "fail", WideOf(0), "serialize failed")>>}

Clock == 0..MaxClock

\* Records at every level, from either call site, with the tests' attributes.
GateRecords == {Record(l, s, kv) : l \in Levels, s \in Sites, kv \in TestKVs}

\* Records at every level with every attribute list up to MaxEventKV.
BuilderRecords ==
    {Record(l, s, kv) : l \in Levels,
                        s \in {x \in Sites : x.msg = "a message"},
                        kv \in KVLists(MaxEventKV)}

\* The two log statements of test_dtrace_with_drain, at every level.
DrainRecords ==
    {Record(l, s, IF s.msg = "a message"
                  THEN <<Attr("some-key", "i32", WideOf(2), "")>>
                  ELSE <<Attr("dtrace", "bool", WideOf(1), "")>>) : l \in Levels, s \in Sites}

\* --------------------------------------------------------------- actions
\* let (drain, registration) = Dtrace::new();
New(res) ==
    /\ sink = "none"
    /\ LET r == DtraceNew(res)
       IN /\ sink' = r.sink
          /\ registration' = r.registration
          /\ regCalls' = regCalls \o r.regCalls
    /\ UNCHANGED <<enabled, observed, calls>>

\* let (drain, registration) = with_drain(drain);
WithDrain(res) ==
    /\ sink = "none"
    /\ LET r == with_drain(res)
       IN /\ sink' = r.sink
          /\ registration' = r.registration
          /\ regCalls' = regCalls \o r.regCalls
    /\ UNCHANGED <<enabled, observed, calls>>

\* The tracer enables one registered probe (dtrace -n 'slog*:::<probe>').
EnableProbe(p) ==
    /\ Registered
    /\ p \notin enabled
    /\ enabled' = enabled \cup {p}
    /\ UNCHANGED <<program, observed, calls>>

\* The tracer disables one probe.
DisableProbe(p) ==
    /\ p \in enabled
    /\ enabled' = enabled \ {p}
    /\ UNCHANGED <<program, observed, calls>>

\* The probe sets of the D scripts of the tests: slog*:::*, slog*:::warn, and
\* slog*:::trace with slog*:::warn.
Scripts == {Probes, {"warn"}, {"trace", "warn"}}

\* dtrace -Z -n <script>: the script's probes are enabled once registered.
Attach(script) ==
    /\ Registered
    /\ enabled = {}
    /\ enabled' = script
    /\ UNCHANGED <<program, observed, calls>>

\* dtrace exits: its probes are disabled.
Detach ==
    /\ enabled # {}
    /\ enabled' = {}
    /\ UNCHANGED <<program, observed, calls>>

\* One call of the sink's log, observed.  record and values are the
\* arguments, io the outcome of the wrapped drain's write, now the clock;
\* limit is the number of calls the observation logs hold.
CanLog(limit) == sink # "none" /\ Len(logged) < limit

Log(record, values, io, now, limit) ==
    /\ CanLog(limit)
    /\ LET n == Len(logged) + 1
           r == IF sink = "Duplicate"
                THEN DuplicateLog(record, values, enabled, io, now)
                ELSE PlainLog(record, values, enabled, io, now)
           Tag(seq) == [i \in DOMAIN seq |-> [call |-> n, item |-> seq[i]]]
       IN /\ logged' = Append(logged, [call |-> n, record |-> record,
                                       values |-> values, io |-> io,
                                       own |-> LevelProbe[record.level] \in enabled,
                                       other |-> enabled \ {LevelProbe[record.level]} # {}])
          /\ wrappedSeen' = wrappedSeen \o Tag(r.wrappedSeen)
          /\ wrappedOut' = wrappedOut \o Tag(r.wrappedOut)
          /\ gateSeen' = gateSeen \o Tag(r.gateSeen)
          /\ built' = built \o Tag(r.built)
          /\ fired' = fired \o Tag(r.fired)
          /\ returned' = Append(returned, r.result)
    /\ UNCHANGED <<program, enabled, calls>>

\* The observer starts a fresh observation.
Forget ==
    /\ logged # <<>>
    /\ logged' = <<>>
    /\ wrappedSeen' = <<>>
    /\ wrappedOut' = <<>>
    /\ gateSeen' = <<>>
    /\ built' = <<>>
    /\ fired' = <<>>
    /\ returned' = <<>>
    /\ UNCHANGED <<program, enabled, calls>>

\* -------------------------------------------------------- specifications
\* The dispatch gate: every subset of the six probes, one observed call.
LogGate ==
    /\ CanLog(1)
    /\ \E record \in GateRecords, io \in {"ok", "err"}, now \in Clock :
           /\ sink = "Dtrace" => io = "ok"
           /\ Log(record, TestValues, io, now, 1)

Next ==
    \/ \E res \in RegisterResults : New(res)
    \/ \E res \in RegisterResults : WithDrain(res)
    \/ \E p \in Probes : EnableProbe(p)
    \/ \E p \in Probes : DisableProbe(p)
    \/ LogGate
    \/ Forget

Spec == Init /\ [][Next]_vars

\* The message builder: every attribute list, under the tests' D scripts.
LogBuilder ==
    /\ CanLog(1)
    /\ \E record \in BuilderRecords, values \in KVLists(MaxCtxKV), now \in Clock :
           Log(record, values, "ok", now, 1)

NextBuilder ==
    \/ \E res \in RegisterResults : New(res)
    \/ \E script \in Scripts : Attach(script)
    \/ Detach
    \/ LogBuilder
    \/ Forget

SpecBuilder == Init /\ [][NextBuilder]_vars

\* The duplicating sink: MaxCalls calls observed in a row, every probe enabled
\* or none (the script slog*:::* of test_dtrace_with_drain), the clock at 0.
LogDrain ==
    /\ CanLog(MaxCalls)
    /\ \E record \in DrainRecords, io \in {"ok", "err"} :
           Log(record, TestValues, io, 0, MaxCalls)

NextDrain ==
    \/ \E res \in RegisterResults : WithDrain(res)
    \/ Attach(Probes)
    \/ Detach
    \/ LogDrain
    \/ Forget

SpecDrain == Init /\ [][NextDrain]_vars

\* ------------------------------------------------------------ properties
\* The observations of call n in an observation log.
ItemsOf(seq, n) == {i \in DOMAIN seq : seq[i].call = n}
CountOf(seq, n) == Cardinality(ItemsOf(seq, n))

\* The attributes a call supplies, in serialization order, and their names.
Supplied(c) == c.record.kv \o c.values
KeysOf(kvs) == {kvs[i].key : i \in DOMAIN kvs}
SerializesOk(c) == \A i \in DOMAIN Supplied(c) : Supplied(c)[i].kind # "fail"

\* The description of the first serialization error of a call.
FirstError(c) ==
    LET kvs == Supplied(c)
        i == CHOOSE x \in DOMAIN kvs :
                 /\ kvs[x].kind = "fail"
                 /\ \A y \in 1..(x - 1) : kvs[y].kind # "fail"
    IN kvs[i].s

\* The level tags of the canonical payload.
LevelTag ==
    [Trace |-> "TRACE", Debug |-> "DEBUG", Info |-> "INFO", Warning |-> "WARN",
     Error |-> "ERROR", Critical |-> "CRITICAL"]

\* C1: a log call whose own level's probe is disabled at the time of the call
\* never invokes create_dtrace_message and fires no payload on any probe,
\* whatever the other five probes are; so with all six disabled nothing is
\* built and nothing is fired.
C1_DisabledProbeBuildsNothing ==
    \A n \in DOMAIN logged :
        ~logged[n].own => CountOf(built, n) = 0 /\ CountOf(fired, n) = 0

\* A call was made with its own probe disabled while another probe was enabled.
C1_Witness ==
    \E n \in DOMAIN logged :
        /\ ~logged[n].own
        /\ logged[n].other
        /\ CountOf(built, n) = 0
        /\ returned[n].tag = "Ok"

\* What C2 says of the call observed as n, but for the attribute names.
C2_OnePayload(n) ==
    LET c == logged[n]
    IN /\ CountOf(built, n) = 1
       /\ CountOf(fired, n) = 1
       /\ \A i \in ItemsOf(fired, n) :
             /\ fired[i].item.probe = LevelProbe[c.record.level]
             /\ fired[i].item.payload.ok.level = LevelTag[c.record.level]
             /\ fired[i].item.payload.ok.message = c.record.msg

\* C2 as stated: every log call whose level's probe is enabled builds exactly
\* one Message and fires exactly one payload, on that level's probe, tagged
\* with the call's level, carrying the call's text, and with a kv that holds
\* every attribute name the event and the logger context supply.
C2_Original ==
    \A n \in DOMAIN logged :
        logged[n].own =>
            /\ C2_OnePayload(n)
            /\ \A i \in ItemsOf(fired, n) :
                  KeysOf(Supplied(logged[n])) \subseteq
                      MapKeys(fired[i].item.payload.ok.kv)

\* C2 amended: as C2, with the kv holding every supplied attribute name
\* whenever every supplied attribute serializes without error.
C2_OnePayloadPerEnabledCall ==
    \A n \in DOMAIN logged :
        logged[n].own =>
            /\ C2_OnePayload(n)
            /\ SerializesOk(logged[n]) =>
                  \A i \in ItemsOf(fired, n) :
                      KeysOf(Supplied(logged[n])) \subseteq
                          MapKeys(fired[i].item.payload.ok.kv)

\* warn "a message" with {"some-key": 2} under {"key": "value"} fired one WARN
\* payload whose kv is {"key": "value", "some-key": 2}.
C2_Witness ==
    \E n \in DOMAIN logged :
        /\ logged[n].record.level = "Warning"
        /\ logged[n].record.msg = "a message"
        /\ logged[n].record.kv = <<Attr("some-key", "i32", WideOf(2), "")>>
        /\ logged[n].values = <<Attr("key", "str", WideOf(0), "value")>>
        /\ CountOf(fired, n) = 1
        /\ \A i \in ItemsOf(fired, n) :
              /\ fired[i].item.probe = "warn"
              /\ fired[i].item.payload.ok.level = "WARN"
              /\ fired[i].item.payload.ok.kv =
                    {[key |-> "key", value |-> JString("value")],
                     [key |-> "some-key", value |-> JNumber(WideOf(2))]}

\* C3: override law.  When an event-local attribute and a context attribute
\* share a name, the built Message's kv holds that name exactly once, with the
\* event-local attribute's value.
C3_OverrideLaw ==
    \A i \in DOMAIN built :
        LET c == logged[built[i].call]
            kv == built[i].item.kv
        IN SerializesOk(c) =>
              \A k \in KeysOf(c.record.kv) \cap KeysOf(c.values) :
                  /\ Cardinality({e \in kv : e.key = k}) = 1
                  /\ \A e \in kv :
                        e.key = k =>
                            e.value \in {IntoValue(c.record.kv[x]) :
                                           x \in {y \in DOMAIN c.record.kv :
                                                    c.record.kv[y].key = k}}

\* C4: a log call maps to exactly one channel.  Whatever the other probes are,
\* a level-L call fires at most one payload and only on probe L, and builds no
\* Message when probe L is disabled.
C4_OneChannel ==
    \A n \in DOMAIN logged :
        /\ CountOf(fired, n) <= 1
        /\ \A i \in ItemsOf(fired, n) :
              fired[i].item.probe = LevelProbe[logged[n].record.level]
        /\ ~logged[n].own => CountOf(built, n) = 0

\* A warning was logged with the warn probe and some other probe enabled, and
\* exactly one payload went out, on warn.
C4_Witness ==
    \E n \in DOMAIN logged :
        /\ logged[n].record.level = "Warning"
        /\ logged[n].own
        /\ logged[n].other
        /\ CountOf(fired, n) = 1
        /\ \A i \in ItemsOf(fired, n) : fired[i].item.probe = "warn"

\* C5: serialization fault recovery.  When an attribute of the event or of the
\* context fails to serialize, create_dtrace_message still returns a Message
\* with the call's location, level and text, whose kv is the single entry
\* "err" -> the error's description, and the payload is fired once.
C5_FaultRecovery ==
    \A n \in DOMAIN logged :
        LET c == logged[n]
        IN (c.own /\ ~SerializesOk(c)) =>
              /\ CountOf(built, n) = 1
              /\ CountOf(fired, n) = 1
              /\ \A i \in ItemsOf(built, n) :
                    /\ built[i].item.kv =
                          {[key |-> "err", value |-> JString(FirstError(c))]}
                    /\ built[i].item.location =
                          [module |-> c.record.module, file |-> c.record.file,
                           line |-> c.record.line]
                    /\ built[i].item.level = LevelTag[c.record.level]
                    /\ built[i].item.message = c.record.msg
                    /\ \A j \in ItemsOf(fired, n) :
                          fired[j].item.payload = [ok |-> built[i].item]

\* An attribute was emitted, a later one failed, and the Message was fired.
C5_Witness ==
    \E n \in DOMAIN logged :
        /\ logged[n].own
        /\ Len(Supplied(logged[n])) >= 2
        /\ Supplied(logged[n])[1].kind # "fail"
        /\ ~SerializesOk(logged[n])
        /\ CountOf(fired, n) = 1
        /\ \A i \in ItemsOf(built, n) : MapKeys(built[i].item.kv) = {"err"}

\* The calls and records of an observation log of records, in order.
Delivered(seq) == [i \in DOMAIN seq |-> [call |-> seq[i].call, record |-> seq[i].item]]
Logged == [i \in DOMAIN logged |-> [call |-> logged[i].call, record |-> logged[i].record]]
CallsOf(seq) == [i \in DOMAIN seq |-> seq[i].call]
OwnEnabled(c) == c.own

\* C6: through the sink of with_drain, the wrapped sink and the Dtrace drain
\* each receive every logged event, in the order logged; the probes fire for
\* every event whose probe is enabled, also for events the wrapped sink's
\* level filter drops, and the wrapped sink writes only events at or above
\* its filter level.
C6_BothPathsInOrder ==
    sink = "Duplicate" =>
        /\ Delivered(wrappedSeen) = Logged
        /\ Delivered(gateSeen) = Logged
        /\ CallsOf(fired) = CallsOf(SelectSeq(logged, OwnEnabled))
        /\ \A i \in DOMAIN fired :
              fired[i].item.payload.ok.message = logged[fired[i].call].record.msg
        /\ \A i \in DOMAIN wrappedOut :
              /\ logged[wrappedOut[i].call].record.level
                    \in {"Warning", "Error", "Critical"}
              /\ \A j \in DOMAIN wrappedOut : i < j => wrappedOut[i].call < wrappedOut[j].call

\* info then warn were logged with every probe enabled: both payloads fired,
\* in that order, and the wrapped sink wrote the warning alone.
C6_Witness ==
    /\ sink = "Duplicate"
    /\ Len(logged) = 2
    /\ logged[1].record.level = "Info"
    /\ logged[2].record.level = "Warning"
    /\ Len(fired) = 2
    /\ fired[1].item.probe = "info"
    /\ fired[2].item.probe = "warn"
    /\ Len(wrappedOut) = 1
    /\ wrappedOut[1].item.level = "WARN"

DtraceHalf(r) == IF r.second = "-" THEN r.tag ELSE r.second

\* C8: when probe registration fails, the constructor still returns a sink,
\* with ProbeRegistration::Failed(reason), and every later log call on it
\* builds no Message, fires no payload, and returns normally.
C8_FailedRegistrationDisables ==
    registration.tag = "Failed" =>
        /\ sink \in {"Dtrace", "Duplicate"}
        /\ registration.reason # ""
        /\ \A n \in DOMAIN logged :
              /\ CountOf(gateSeen, n) = 1
              /\ CountOf(built, n) = 0
              /\ CountOf(fired, n) = 0
              /\ DtraceHalf(returned[n]) = "Ok"

\* Registration failed and a log call was made on the sink.
C8_Witness ==
    /\ registration.tag = "Failed"
    /\ logged # <<>>
    /\ returned[1].tag = "Ok"

\* C9: probe registration is attempted exactly once, inside the sink's
\* construction, and never again; the ProbeRegistration the caller holds is
\* the outcome of that one attempt, whatever log calls follow.
C9_RegisteredOnce ==
    /\ sink = "none" => regCalls = <<>> /\ registration = NotConstructed
    /\ sink # "none" =>
          /\ Len(regCalls) = 1
          /\ registration = IF regCalls[1] = "" THEN Success ELSE Failed(regCalls[1])

\* with_drain's registration failed once, and a log call followed.
C9_Witness ==
    /\ sink = "Duplicate"
    /\ registration.tag = "Failed"
    /\ Len(regCalls) = 1
    /\ logged # <<>>

\* C10 as stated: every log call through a sink of Dtrace::new or with_drain
\* returns Ok.
C10_Original == \A n \in DOMAIN returned : returned[n].tag = "Ok"

\* C10 amended: the Dtrace drain's log always returns Ok(()), whatever the
\* record, its attributes and the probes; a log call through the sink of
\* with_drain returns Err exactly when the wrapped sink's own log returns Err.
C10_DtraceNeverFails ==
    \A n \in DOMAIN returned :
        /\ DtraceHalf(returned[n]) = "Ok"
        /\ returned[n].tag = "Err" <=> returned[n].first = "Err"
        /\ returned[n].first = "Err" => sink = "Duplicate" /\ logged[n].io = "err"

\* A call whose attribute failed to serialize fired its payload and returned Ok.
C10_Witness ==
    \E n \in DOMAIN logged :
        /\ logged[n].own
        /\ ~SerializesOk(logged[n])
        /\ CountOf(fired, n) = 1
        /\ returned[n].tag = "Ok"

\* ============================================================ round trip
\* The typed values handed to the emit_* methods: for every integer type its
\* least and greatest value and the values around zero, both booleans, strings,
\* a formatted text, unit, none, and finite and non-finite floats.
IntSamples(kind) ==
    {v \in {MinOf(kind), WideOf(0 - 1), WideOf(0), WideOf(1), MaxOf(kind)} :
        InRange(v, kind)}

TypedValues ==
    UNION {{[kind |-> k, n |-> v, s |-> ""] : v \in IntSamples(k)} : k \in IntKinds}
    \cup
    {[kind |-> "bool", n |-> WideOf(b), s |-> ""] : b \in {0, 1}}
    \cup
    {[kind |-> "str", n |-> WideOf(0), s |-> x] : x \in {"", "value"}}
    \cup
    {[kind |-> "arguments", n |-> WideOf(0), s |-> "a value: 2"]}
    \cup
    {[kind |-> k, n |-> WideOf(0), s |-> ""] : k \in {"unit", "none"}}
    \cup
    {[kind |-> k, n |-> WideOf(0), s |-> x] :
        k \in {"f32", "f64"}, x \in {"0.5", "-1.5"} \cup NonFinite}

\* Log statements with one attribute "a", or two attributes "a" and "b".
RoundTripKVs ==
    {<<Attr("a", v.kind, v.n, v.s)>> : v \in TypedValues}
    \cup
    {<<Attr("a", v.kind, v.n, v.s), Attr("b", w.kind, w.n, w.s)>> :
        v \in TypedValues, w \in TypedValues}

RoundTripRecords ==
    {Record(l, s, kv) : l \in Levels,
                        s \in {x \in Sites : x.msg = "a message"},
                        kv \in RoundTripKVs}

LogRoundTrip ==
    /\ CanLog(1)
    /\ \E record \in RoundTripRecords : Log(record, <<>>, "ok", 0, 1)

NextRoundTrip ==
    \/ \E res \in RegisterResults : New(res)
    \/ \E script \in Scripts : Attach(script)
    \/ Detach
    \/ LogRoundTrip
    \/ Forget

SpecRoundTrip == Init /\ [][NextRoundTrip]_vars

\* The JSON text of a value, as the probe argument carries it: an integer is a
\* sign and decimal digits, a float its decimal text, a string is quoted, and
\* true, false and null are literals.
ToJson(v) ==
    CASE v.j = "Number" ->
             [tok |-> "integer", minus |-> v.n.neg, digits |-> v.n.mag, text |-> ""]
      [] v.j = "Float" ->
             [tok |-> "float", minus |-> FALSE, digits |-> WideOf(0).mag, text |-> v.s]
      [] v.j = "String" ->
             [tok |-> "string", minus |-> FALSE, digits |-> WideOf(0).mag, text |-> v.s]
      [] v.j = "Bool" ->
             [tok |-> IF v.n = WideOf(1) THEN "true" ELSE "false",
              minus |-> FALSE, digits |-> WideOf(0).mag, text |-> ""]
      [] v.j = "Null" ->
             [tok |-> "null", minus |-> FALSE, digits |-> WideOf(0).mag, text |-> ""]

\* serde_json::from_str on the consumer's side: digits without a sign parse as
\* a u64, digits with a sign as an i64, and an integer beyond those as a float.
FromJson(t) ==
    CASE t.tok = "integer" ->
             LET n == [neg |-> t.minus /\ t.digits # WideOf(0).mag, mag |-> t.digits]
             IN IF InRange(n, IF t.minus THEN "i64" ELSE "u64")
                THEN JNumber(n)
                ELSE JFloat("out of range")
      [] t.tok = "float" -> JFloat(t.text)
      [] t.tok = "string" -> JString(t.text)
      [] t.tok = "true" -> JBool(TRUE)
      [] t.tok = "false" -> JBool(FALSE)
      [] t.tok = "null" -> JNull

\* What a consumer that knows the attribute's type reads from a decoded value:
\* the typed value, or a failure when the value is not one of the type.
NoValue == [ok |-> FALSE, n |-> WideOf(0), s |-> ""]

Decode(v, kind) ==
    CASE kind \in IntKinds ->
             IF v.j = "Number" /\ InRange(v.n, kind)
             THEN [ok |-> TRUE, n |-> v.n, s |-> ""] ELSE NoValue
      [] kind \in {"f32", "f64"} ->
             IF v.j = "Float" THEN [ok |-> TRUE, n |-> WideOf(0), s |-> v.s] ELSE NoValue
      [] kind = "bool" ->
             IF v.j = "Bool" THEN [ok |-> TRUE, n |-> v.n, s |-> ""] ELSE NoValue
      [] kind \in {"str", "arguments"} ->
             IF v.j = "String" THEN [ok |-> TRUE, n |-> WideOf(0), s |-> v.s] ELSE NoValue
      [] kind \in {"unit", "none"} ->
             IF v.j = "Null" THEN [ok |-> TRUE, n |-> WideOf(0), s |-> ""] ELSE NoValue

\* The value the payload's kv holds under a key.
StoredUnder(kv, key) == (CHOOSE e \in kv : e.key = key).value

\* The attribute's value comes back from the payload's kv as it was emitted.
RoundTrips(kv, a) ==
    /\ a.key \in MapKeys(kv)
    /\ Decode(FromJson(ToJson(StoredUnder(kv, a.key))), a.kind)
           = [ok |-> TRUE, n |-> a.n, s |-> a.s]

\* What an attribute means, whatever Rust type carried it: integers of every
\* width are integers, a string and a formatted text are text.
Meaning(a) ==
    [class |-> CASE a.kind \in IntKinds -> "integer"
                 [] a.kind \in {"f32", "f64"} -> "float"
                 [] a.kind \in {"str", "arguments"} -> "text"
                 [] OTHER -> a.kind,
     n |-> a.n, s |-> a.s]

\* Two attributes that mean different things are stored as the same value.
ToldApart(kv, a, b) ==
    Meaning(a) # Meaning(b) => StoredUnder(kv, a.key) # StoredUnder(kv, b.key)

IsNonFinite(a) == a.kind \in {"f32", "f64"} /\ a.s \in NonFinite
AppearsAsNull(a) == a.kind \in {"unit", "none"} \/ IsNonFinite(a)

\* The payloads fired by the calls of the log, with the attributes supplied.
FiredKVs ==
    {[kvs |-> Supplied(logged[fired[i].call]), kv |-> fired[i].item.payload.ok.kv] :
        i \in {x \in DOMAIN fired : fired[x].call \in DOMAIN logged}}

\* C11 as stated: every attribute of a fired payload decodes from the kv to
\* the value that was emitted, and two attributes of different meaning are
\* stored as different values, except a unit next to a none.
C11_Original ==
    \A p \in FiredKVs :
        /\ \A i \in DOMAIN p.kvs : RoundTrips(p.kv, p.kvs[i])
        /\ \A i, k \in DOMAIN p.kvs :
              \/ ToldApart(p.kv, p.kvs[i], p.kvs[k])
              \/ {p.kvs[i].kind, p.kvs[k].kind} = {"unit", "none"}

\* C11 amended: every integer of every width, bool, string, formatted text and
\* finite float decodes from the kv to the value that was emitted; unit, none
\* and the floats that are not finite (NaN and the infinities) are stored as
\* null; and two attributes of different meaning are stored as different
\* values unless both appear as null.
C11_RoundTrip ==
    \A p \in FiredKVs :
        /\ \A i \in DOMAIN p.kvs :
              /\ ~IsNonFinite(p.kvs[i]) => RoundTrips(p.kv, p.kvs[i])
              /\ AppearsAsNull(p.kvs[i]) => StoredUnder(p.kv, p.kvs[i].key) = JNull
        /\ \A i, k \in DOMAIN p.kvs :
              \/ ToldApart(p.kv, p.kvs[i], p.kvs[k])
              \/ AppearsAsNull(p.kvs[i]) /\ AppearsAsNull(p.kvs[k])

\* A payload fired with the greatest u64 next to a none: the kv holds
\* 2^64 - 1 under "a" and null under "b".
C11_Witness ==
    \E p \in FiredKVs :
        /\ p.kvs = <<Attr("a", "u64", MaxOf("u64"), ""), Attr("b", "none", WideOf(0), "")>>
        /\ p.kv = {[key |-> "a", value |-> JNumber(Wide(FALSE, 15, Limb - 1, Limb - 1))],
                   [key |-> "b", value |-> JNull]}

\* ======================================================= concurrent calls
\* Several threads call log on the same sink.  A call is a sequence of steps
\* on the thread's own locals; the steps of different threads interleave, and
\* the tracer may attach and detach in between.

\* log(&self, record, values): the call's arguments, on the thread's stack.
StartCall(n, record, values) ==
    [Idle EXCEPT !.pc = "gate", !.call = n, !.record = record, !.values = values]

\* The entry of create_dtrace_message: a Serializer of its own, and the
\* attributes of record.kv() and then of the logger values still to serialize.
EnterBuilder(c) ==
    [c EXCEPT !.pc = "serialize", !.ser = NewSerializer,
              !.pending = c.record.kv \o c.values]

\* A Serializer map held once, by the sink: what one call emits lands in the
\* map of every call that is serializing.
EmitOneSharedMap(cs, t) ==
    LET a == Head(cs[t].pending)
    IN [u \in DOMAIN cs |->
           IF u = t
           THEN [cs[t] EXCEPT !.ser = SerializeKV(cs[t].ser, <<a>>),
                              !.pending = Tail(cs[t].pending)]
           ELSE IF cs[u].pc = "serialize" /\ cs[u].ser.ok
                THEN [cs[u] EXCEPT !.ser = SerializeKV(cs[u].ser, <<a>>)]
                ELSE cs[u]]

\* One attribute is serialized into the calling thread's Serializer.
EmitOne(cs, t) ==
    [cs EXCEPT ![t].ser = SerializeKV(cs[t].ser, <<Head(cs[t].pending)>>),
               ![t].pending = Tail(cs[t].pending)]

\* The end of create_dtrace_message: the map, or the single entry "err" when
\* serialization failed, inside a Message with the record's location, level
\* and text and the time read from the clock.
MessageFrom(record, st, now) ==
    [location |-> [module |-> record.module, file |-> record.file,
                   line |-> record.line],
     timestamp |-> now,
     level |-> LevelStr(record.level),
     message |-> record.msg,
     kv |-> IF st.ok THEN st.map
            ELSE MapInsert(EmptyMap, "err", JString(st.err))]

\* The log statements of the threads: the warn! and the info! of
\* test_dtrace_with_drain, through the tests' logger or through a logger
\* whose context gives "key" another value.
ThreadRecords ==
    {r \in DrainRecords : \/ r.msg = "a message" /\ r.level = "Warning"
                          \/ r.msg = "just for dtrace" /\ r.level = "Info"}

ThreadValues == {TestValues, <<Attr("key", "i32", WideOf(2), "")>>}

\* Thread t calls log.  Threads are started in the order of their numbers.
ThreadCall(t) ==
    /\ sink = "Dtrace"
    /\ calls[t].pc = "idle"
    /\ \A u \in Threads : u < t => calls[u].pc # "idle"
    /\ \E record \in ThreadRecords, values \in ThreadValues :
           LET n == Len(logged) + 1
           IN /\ logged' = Append(logged, [call |-> n, record |-> record,
                                           values |-> values, thread |-> t])
              /\ calls' = [calls EXCEPT ![t] = StartCall(n, record, values)]
    /\ UNCHANGED <<program, enabled, wrappedSeen, wrappedOut, gateSeen, built,
                   fired, returned>>

\* The probe macro of the record's level tests whether its probe is enabled:
\* if so the closure runs, otherwise log goes on to return.
ThreadGate(t) ==
    /\ calls[t].pc = "gate"
    /\ calls' = [calls EXCEPT ![t] =
                    IF ProbeOf(calls[t].record.level) \in enabled
                    THEN EnterBuilder(calls[t])
                    ELSE [calls[t] EXCEPT !.pc = "return"]]
    /\ UNCHANGED <<program, enabled, observed>>

\* One attribute of the call is serialized.
ThreadEmit(t) ==
    /\ calls[t].pc = "serialize"
    /\ calls[t].ser.ok
    /\ calls[t].pending # <<>>
    /\ calls' = EmitOne(calls, t)
    /\ UNCHANGED <<program, enabled, observed>>

\* Serialization is over, or has failed: the Message is built.  The clock
\* is held at 0.
ThreadBuild(t) ==
    /\ calls[t].pc = "serialize"
    /\ ~calls[t].ser.ok \/ calls[t].pending = <<>>
    /\ calls' = [calls EXCEPT
                    ![t].msg = <<MessageFrom(calls[t].record, calls[t].ser, 0)>>,
                    ![t].pc = "fire"]
    /\ UNCHANGED <<program, enabled, observed>>

\* The probe fires with the Message as its JSON payload.
ThreadFire(t) ==
    /\ calls[t].pc = "fire"
    /\ fired' = Append(fired,
                       [call |-> calls[t].call,
                        item |-> [probe |-> ProbeOf(calls[t].record.level),
                                  payload |-> [ok |-> calls[t].msg[1]]]])
    /\ calls' = [calls EXCEPT ![t].pc = "return"]
    /\ UNCHANGED <<program, enabled, logged, wrappedSeen, wrappedOut, gateSeen,
                   built, returned>>

\* log returns Ok(()).
ThreadReturn(t) ==
    /\ calls[t].pc = "return"
    /\ calls' = [calls EXCEPT ![t].pc = "done"]
    /\ UNCHANGED <<program, enabled, observed>>

\* Every thread that called has returned: the threads are joined and the
\* observer starts a fresh observation.
Join ==
    /\ \A t \in Threads : calls[t].pc \in {"idle", "done"}
    /\ \E t \in Threads : calls[t].pc = "done"
    /\ calls' = [t \in Threads |-> Idle]
    /\ logged' = <<>>
    /\ fired' = <<>>
    /\ UNCHANGED <<program, enabled, wrappedSeen, wrappedOut, gateSeen, built,
                   returned>>

NextThreads ==
    \/ \E res \in RegisterResults : New(res)
    \/ \E script \in Scripts : Attach(script)
    \/ Detach
    \/ \E t \in Threads : ThreadCall(t)
    \/ \E t \in Threads : ThreadGate(t)
    \/ \E t \in Threads : ThreadEmit(t)
    \/ \E t \in Threads : ThreadBuild(t)
    \/ \E t \in Threads : ThreadFire(t)
    \/ \E t \in Threads : ThreadReturn(t)
    \/ Join

SpecThreads == Init /\ [][NextThreads]_vars

\* The attributes of its call a thread has serialized so far.
Serialized(c) ==
    SubSeq(c.record.kv \o c.values, 1,
           Len(c.record.kv \o c.values) - Len(c.pending))

\* The locals of a thread inside log are what its own call alone produces.
OwnLocals(t) ==
    LET c == calls[t]
    IN c.pc \notin {"idle", "done"} =>
          /\ c.call \in DOMAIN logged
          /\ logged[c.call].thread = t
          /\ c.record = logged[c.call].record
          /\ c.values = logged[c.call].values
          /\ c.pc = "serialize" => c.ser = SerializeKV(NewSerializer, Serialized(c))
          /\ c.pc = "fire" =>
                c.msg = <<create_dtrace_message(c.record, c.values, c.msg[1].timestamp)>>

\* C12: concurrent log calls do not interfere.  Under every interleaving of
\* the threads' steps, every fired payload is exactly the Message that the
\* location, level, text and attributes of the call that produced it yield on
\* their own, on that call's level's probe; every call fires at most one
\* payload; and the locals of every call in progress (arguments, Serializer
\* map, Message) are what that call alone has written.
C12_NoInterference ==
    /\ \A i \in DOMAIN fired :
          /\ fired[i].call \in DOMAIN logged
          /\ LET c == logged[fired[i].call]
             IN fired[i].item =
                    [probe |-> LevelProbe[c.record.level],
                     payload |-> [ok |-> create_dtrace_message(
                                     c.record, c.values,
                                     fired[i].item.payload.ok.timestamp)]]
    /\ \A n \in DOMAIN logged : CountOf(fired, n) <= 1
    /\ \A t \in Threads : OwnLocals(t)

\* Two calls with different attributes overlapped: the call that started
\* second fired first and has returned, then the first call fired, and the
\* two payloads hold different attribute names.
C12_Witness ==
    /\ Len(fired) = 2
    /\ fired[1].call = 2
    /\ fired[2].call = 1
    /\ MapKeys(fired[1].item.payload.ok.kv) # MapKeys(fired[2].item.payload.ok.kv)
    /\ \E t, u \in Threads :
          /\ t # u
          /\ calls[t].call = 1
          /\ calls[u].call = 2
          /\ calls[t].pc = "return"
          /\ calls[u].pc = "done"

====
